---- MODULE Spec2Model ----
(***************************************************************************)
(* Connection configuration and dual-mode session lifecycle of the        *)
(* backend scaffold: db/settings.py (URL resolution), db/session.py       *)
(* (engines, scoped sessions, diagnostics) and api/routes/db_example.py   *)
(* (request handlers using the session providers).                        *)
(*                                                                         *)
(* Python strings are sequences of one-character strings, so that         *)
(* str.replace, the "in" substring test and str.format are computed the   *)
(* way the interpreter computes them.                                      *)
(***************************************************************************)
EXTENDS Integers, Sequences, FiniteSets, TLC

VARIABLES settings, runtime_env, dev_local_url, url_result,
          USE_ASYNC, db_engine, async_engine, req, stats

vars == <<settings, runtime_env, dev_local_url, url_result,
          USE_ASYNC, db_engine, async_engine, req, stats>>

urlVars == <<settings, runtime_env, dev_local_url, url_result>>

sessionVars == <<USE_ASYNC, db_engine, async_engine, req, stats>>

(***************************************************************************)
(* String literals of the source and the configuration values used as     *)
(* inputs.                                                                 *)
(***************************************************************************)
STR_None == <<"N", "o", "n", "e">>
STR_postgres_scheme == <<"p", "o", "s", "t", "g", "r", "e", "s", ":", "/", "/">>
STR_postgresql_scheme == <<"p", "o", "s", "t", "g", "r", "e", "s", "q", "l", ":", "/", "/">>
STR_asyncpg_scheme == <<"p", "o", "s", "t", "g", "r", "e", "s", "q", "l", "+", "a", "s", "y", "n", "c", "p", "g", ":", "/", "/">>
STR_asyncpg_driver == <<"p", "o", "s", "t", "g", "r", "e", "s", "q", "l", "+", "a", "s", "y", "n", "c", "p", "g">>
STR_default_driver == <<"p", "o", "s", "t", "g", "r", "e", "s", "q", "l", "+", "p", "s", "y", "c", "o", "p", "g">>
STR_sep == <<":", "/", "/">>
STR_colon == <<":">>
STR_at == <<"@">>
STR_slash == <<"/">>

\* u:p@h:5432/d
REST_plain == <<"u", ":", "p", "@", "h", ":", "5", "4", "3", "2", "/", "d">>
\* u:p@h/d?o=postgres://x   (a query parameter whose value is itself a URL)
REST_nested == <<"u", ":", "p", "@", "h", "/", "d", "?", "o", "=", "p", "o", "s", "t", "g", "r", "e", "s", ":", "/", "/", "x">>
\* postgresql+asyncpg://a:p@h/d
URL_async_explicit == <<"p", "o", "s", "t", "g", "r", "e", "s", "q", "l", "+", "a", "s", "y", "n", "c", "p", "g", ":", "/", "/", "a", ":", "p", "@", "h", "/", "d">>
\* postgresql://local/db
URL_local == <<"p", "o", "s", "t", "g", "r", "e", "s", "q", "l", ":", "/", "/", "l", "o", "c", "a", "l", "/", "d", "b">>
V_localhost == <<"l", "o", "c", "a", "l", "h", "o", "s", "t">>
V_5432 == <<"5", "4", "3", "2">>
V_app == <<"a", "p", "p">>
V_appdb == <<"a", "p", "p", "d", "b">>
V_secret == <<"s", "3">>
V_xNone == <<"x", "N", "o", "n", "e">>
V_dev == <<"d", "e", "v">>

URL_alias_plain == STR_postgres_scheme \o REST_plain
URL_canonical_plain == STR_postgresql_scheme \o REST_plain
URL_alias_nested == STR_postgres_scheme \o REST_nested

(***************************************************************************)
(* Optional[str]: None, or a string (possibly empty).                      *)
(***************************************************************************)
None == [isNone |-> TRUE, s |-> <<>>]

Some(s) == [isNone |-> FALSE, s |-> s]

\* Python truthiness of an Optional[str]: None and "" are both falsy.
Truthy(o) == ~o.isNone /\ o.s # <<>>

\* str.format of an Optional value: None is rendered as the text "None".
Str(o) == IF o.isNone THEN STR_None ELSE o.s

(***************************************************************************)
(* Python string primitives.                                               *)
(***************************************************************************)
MatchAt(s, i, p) ==
    /\ i + Len(p) - 1 <= Len(s)
    /\ \A k \in 1..Len(p) : s[i + k - 1] = p[k]

\* p in s
Contains(s, p) == \E i \in 1..(Len(s) - Len(p) + 1) : MatchAt(s, i, p)

RECURSIVE ReplaceFrom(_, _, _, _)
ReplaceFrom(s, i, old, new) ==
    IF i > Len(s) THEN <<>>
    ELSE IF MatchAt(s, i, old)
         THEN new \o ReplaceFrom(s, i + Len(old), old, new)
         ELSE <<s[i]>> \o ReplaceFrom(s, i + 1, old, new)

\* s.replace(old, new): every non-overlapping occurrence, left to right.
Replace(s, old, new) == ReplaceFrom(s, 1, old, new)

StartsWith(s, p) == MatchAt(s, 1, p)

\* the part of a URL after its "scheme://" prefix p
Remainder(s, p) == SubSeq(s, Len(p) + 1, Len(s))

(***************************************************************************)
(* db/settings.py                                                          *)
(***************************************************************************)
\* names bound at module level in workspace/dev_resources.py
DevResourcesNames ==
    {"getenv", "FastApi", "DockerImage", "DockerResources", "ws_settings",
     "dev_image", "container_env", "dev_fastapi", "dev_docker_resources"}

Ok(v) == [kind |-> "ok", value |-> v]

Raise(e) == [kind |-> e, value |-> <<>>]

\* "{}://{}{}@{}:{}/{}".format(driver, user, ":pass" or "", host, port, database)
FormatDbUrl(s, driver) ==
    driver \o STR_sep \o Str(s.db_user)
           \o (IF Truthy(s.db_pass) THEN STR_colon \o s.db_pass.s ELSE <<>>)
           \o STR_at \o Str(s.db_host)
           \o STR_colon \o Str(s.db_port)
           \o STR_slash \o Str(s.db_database)

\* lines 91-94: the final validity check
CheckBuiltUrl(db_url) ==
    IF Contains(db_url, STR_None) THEN Raise("ValueError") ELSE Ok(db_url)

\* lines 79-89: the local-development fallback
LocalFallback(db_url, for_async, env, local) ==
    IF Contains(db_url, STR_None) /\ env.isNone
    THEN IF "dev_db" \notin DevResourcesNames
         THEN Raise("ImportError")
         ELSE IF Truthy(local)
              THEN IF for_async
                   THEN Ok(Replace(local.s, STR_postgresql_scheme, STR_asyncpg_scheme))
                   ELSE Ok(local.s)
              ELSE CheckBuiltUrl(db_url)
    ELSE CheckBuiltUrl(db_url)

\* lines 57-65: adapt the generic DATABASE_URL
AdaptDatabaseUrl(s, for_async) ==
    LET base_url == Replace(s.database_url.s, STR_postgres_scheme, STR_postgresql_scheme)
    IN  IF for_async
        THEN Ok(Replace(base_url, STR_postgresql_scheme, STR_asyncpg_scheme))
        ELSE Ok(base_url)

\* A resolver that adapts the generic URL in sync mode too (no verbatim return).
get_db_url_always_adapt(s, for_async, env, local) ==
    IF for_async /\ Truthy(s.database_url_async) THEN Ok(s.database_url_async.s)
    ELSE IF Truthy(s.database_url) THEN AdaptDatabaseUrl(s, for_async)
    ELSE LocalFallback(FormatDbUrl(s, IF for_async THEN STR_asyncpg_driver ELSE s.db_driver),
                       for_async, env, local)

\* DbSettings.get_db_url
get_db_url(s, for_async, env, local) ==
    IF for_async /\ Truthy(s.database_url_async) THEN Ok(s.database_url_async.s)
    ELSE IF ~for_async /\ Truthy(s.database_url) THEN Ok(s.database_url.s)
    ELSE IF Truthy(s.database_url) THEN AdaptDatabaseUrl(s, for_async)
    ELSE LET driver == IF for_async THEN STR_asyncpg_driver ELSE s.db_driver
             db_url == FormatDbUrl(s, driver)
         IN  LocalFallback(db_url, for_async, env, local)

(***************************************************************************)
(* URL resolution as a state machine: the configuration is an arbitrary    *)
(* environment, fixed after load; each step is one call of get_db_url.     *)
(***************************************************************************)
DatabaseUrls == {None, Some(<<>>), Some(URL_alias_plain), Some(URL_canonical_plain),
                 Some(URL_alias_nested)}

AsyncUrls == {None, Some(URL_async_explicit)}

SettingsSpace ==
    [db_host : {None, Some(V_localhost)},
     db_port : {None, Some(V_5432)},
     db_user : {None, Some(V_app)},
     db_pass : {None, Some(<<>>), Some(V_secret), Some(V_xNone)},
     db_database : {None, Some(V_appdb)},
     db_driver : {STR_default_driver},
     database_url : DatabaseUrls,
     database_url_async : AsyncUrls]

NoCall == [called |-> FALSE, for_async |-> FALSE, kind |-> "none", value |-> <<>>]

\* the settings the session layer was imported with (DATABASE_URL only)
LoadedSettings ==
    [db_host |-> None, db_port |-> None, db_user |-> None, db_pass |-> None,
     db_database |-> None, db_driver |-> STR_default_driver,
     database_url |-> Some(URL_canonical_plain), database_url_async |-> None]

InitUrlVars ==
    /\ settings \in SettingsSpace
    /\ runtime_env \in {None, Some(V_dev)}
    /\ dev_local_url \in {None, Some(URL_local)}
    /\ url_result = NoCall

\* one call db_settings.get_db_url(for_async=...)
ResolveUrl(for_async) ==
    /\ LET r == get_db_url(settings, for_async, runtime_env, dev_local_url)
       IN  url_result' = [called |-> TRUE, for_async |-> for_async,
                          kind |-> r.kind, value |-> r.value]
    /\ UNCHANGED <<settings, runtime_env, dev_local_url>>
    /\ UNCHANGED sessionVars

ResolveSync == ResolveUrl(FALSE)

ResolveAsync == ResolveUrl(TRUE)

(***************************************************************************)
(* db/session.py: engines and their connection pools.                      *)
(***************************************************************************)
pool_size == 5

max_overflow == 10

\* number of requests in the model
MaxRequests == 2

\* number of close_db calls in the model
MaxDispose == 1

\* number of requests running while the status route is polled
MaxDiagRequests == 1

Req == 1..MaxRequests

DiagReq == 1..MaxDiagRequests

\* a QueuePool right after construction: no connection created yet
FreshPool == [size |-> pool_size, checkedin |-> 0, overflow |-> 0 - pool_size]

\* QueuePool.checkedout()
CheckedOut(p) == p.size - p.checkedin + p.overflow

CanCheckOut(p) == p.checkedin > 0 \/ p.overflow < max_overflow

\* a connection leaves the pool: an idle one if any, else a new one
CheckOut(p) ==
    IF p.checkedin > 0 THEN [p EXCEPT !.checkedin = @ - 1]
    ELSE [p EXCEPT !.overflow = @ + 1]

\* a connection returns to the pool: kept if the queue has room, else closed
CheckIn(p) ==
    IF p.checkedin < p.size THEN [p EXCEPT !.checkedin = @ + 1]
    ELSE [p EXCEPT !.overflow = @ - 1]

\* create_engine(...) at import; gen counts the pools this engine has had
NewEngine == [defined |-> TRUE, gen |-> 0, pool |-> FreshPool]

\* the name async_engine is bound only when USE_ASYNC is true
Undefined == [defined |-> FALSE, gen |-> 0, pool |-> FreshPool]

\* Engine.dispose(): the pool is replaced by a fresh one
Dispose(e) == [e EXCEPT !.gen = @ + 1, !.pool = FreshPool]

\* Pool.status(): the four counters of the pool
PoolStatus(p) ==
    [pool_size |-> p.size, checkedin |-> p.checkedin,
     overflow |-> p.overflow, checkedout |-> CheckedOut(p)]

(***************************************************************************)
(* Sessions.  conn = 0: no connection held; conn = g + 1: a connection     *)
(* checked out of the pool of generation g.                                *)
(***************************************************************************)
NoSession == [created |-> FALSE, mode |-> "none", conn |-> 0,
              closeCalls |-> 0, rollbackCalls |-> 0]

NewSession(mode) == [created |-> TRUE, mode |-> mode, conn |-> 0,
                     closeCalls |-> 0, rollbackCalls |-> 0]

\* the pool after a session gives back the connection it holds
ReleaseTo(e, sess) ==
    IF sess.conn = e.gen + 1 THEN [e EXCEPT !.pool = CheckIn(@)] ELSE e

\* Session.close() / AsyncSession.close(), called n times in a row
Closed(sess, n) == [sess EXCEPT !.conn = 0, !.closeCalls = @ + n]

SyncRoutes == {"get_examples", "create_example"}

AsyncRoutes == {"get_async_examples", "create_async_example", "async_scope"}

IdleRequest ==
    [route |-> "none", pc |-> "idle", session |-> NoSession, outcome |-> "none",
     status |-> 0, detail |-> <<>>, trace |-> <<>>]

(***************************************************************************)
(* api/routes/db_example.py: what each handler returns or raises.          *)
(***************************************************************************)
\* the f-string prefix of the HTTPException detail (Russian in the source:
\* "database error: ")
DetailPrefix == "Oshibka bazy dannykh: "

\* str(e) of the database errors a query can raise
ErrTexts == {"connection refused", "auth failed for postgresql://u:s3@h/d"}

\* what db.execute does: it may get no connection, or fail on the query
QueryResults ==
    {[ok |-> TRUE, connected |-> TRUE, text |-> "none"]}
    \cup [ok : {FALSE}, connected : BOOLEAN, text : ErrTexts]

\* the request body handed to a create handler
DataInputs == {"dict", "NoneType", "list"}

\* str(e) of the AttributeError raised by data.get on a non-dict
AttributeErrorText(data) == "'" \o data \o "' object has no attribute 'get'"

Returned == [outcome |-> "ok", status |-> 200, detail |-> <<>>, events |-> <<>>]

\* raise HTTPException(status_code=500, detail=f"...: {str(e)}")
HTTPException500(text, before) ==
    [outcome |-> "failed", status |-> 500, detail |-> <<DetailPrefix, text>>,
     events |-> before \o <<"surface_500">>]

\* get_examples: try: execute ... return; except Exception: raise HTTPException
get_examples_result(q) ==
    IF q.ok THEN Returned ELSE HTTPException500(q.text, <<>>)

\* get_async_examples
get_async_examples_result(q) ==
    IF q.ok THEN Returned ELSE HTTPException500(q.text, <<>>)

\* A create handler that raises without rolling back.
create_example_no_rollback(data) ==
    IF data = "dict" THEN Returned
    ELSE HTTPException500(AttributeErrorText(data), <<>>)

\* create_example: try: return {..., data.get(...)};
\* except Exception: db.rollback(); raise HTTPException
create_example_result(data) ==
    IF data = "dict" THEN Returned
    ELSE HTTPException500(AttributeErrorText(data), <<"rollback">>)

\* create_async_example: the same with await db.rollback()
create_async_example_result(data) ==
    IF data = "dict" THEN Returned
    ELSE HTTPException500(AttributeErrorText(data), <<"rollback">>)

\* number of "rollback" events in a handler's event list
RECURSIVE Rollbacks(_)
Rollbacks(ev) ==
    IF ev = <<>> THEN 0
    ELSE (IF Head(ev) = "rollback" THEN 1 ELSE 0) + Rollbacks(Tail(ev))

(***************************************************************************)
(* db/session.py: the session providers.                                   *)
(***************************************************************************)
\* requests are numbered in the order in which they arrive
Arrives(r) ==
    /\ req[r].pc = "idle"
    /\ r > 1 => req[r - 1].pc # "idle"

\* get_db up to its yield: db = SessionLocal(); yield db
get_db(r, route) ==
    /\ route \in SyncRoutes
    /\ Arrives(r)
    /\ req' = [req EXCEPT ![r] = [@ EXCEPT !.route = route, !.pc = "handler",
                                           !.session = NewSession("sync")]]
    /\ UNCHANGED <<USE_ASYNC, db_engine, async_engine, stats>>
    /\ UNCHANGED urlVars

\* A guard that never fires.
AsyncNotConfigured_never(useAsync) == FALSE

\* line 61: if not USE_ASYNC
AsyncNotConfigured(useAsync) == ~useAsync

\* get_async_session up to its yield
get_async_session(r, route) ==
    /\ route \in AsyncRoutes
    /\ Arrives(r)
    /\ IF AsyncNotConfigured(USE_ASYNC)
       THEN req' = [req EXCEPT ![r] =
                [@ EXCEPT !.route = route, !.pc = "done", !.outcome = "RuntimeError",
                          !.status = IF route = "async_scope" THEN 0 ELSE 500,
                          !.detail = IF route = "async_scope" THEN <<>>
                                     ELSE <<"Internal Server Error">>]]
       ELSE req' = [req EXCEPT ![r] = [@ EXCEPT !.route = route, !.pc = "handler",
                                                !.session = NewSession("async")]]
    /\ UNCHANGED <<USE_ASYNC, db_engine, async_engine, stats>>
    /\ UNCHANGED urlVars

\* get_async_db: async with get_async_session() as session: yield session
get_async_db(r, route) ==
    /\ route \in {"get_async_examples", "create_async_example"}
    /\ get_async_session(r, route)

\* a caller entering "async with get_async_session()" itself
AsyncScopeEnter(r) == get_async_session(r, "async_scope")

\* the cleanup get_db runs when the caller's scope ends: finally: db.close()
SyncCleanup == <<"finally_close">>

\* the cleanup get_async_session runs: finally: await session.close(), then the
\* exit of "async with AsyncSessionLocal() as session", which closes the session
AsyncCleanup == <<"finally_close", "aexit_close">>

CloseEvents(cleanup) == [i \in 1..Len(cleanup) |-> "close"]

\* get_db after its yield
get_db_exit(r) ==
    /\ req[r].pc = "exit"
    /\ req[r].route \in SyncRoutes
    /\ db_engine' = ReleaseTo(db_engine, req[r].session)
    /\ req' = [req EXCEPT ![r] =
            [@ EXCEPT !.pc = "done",
                      !.session = Closed(@, Len(SyncCleanup)),
                      !.trace = @ \o CloseEvents(SyncCleanup)]]
    /\ UNCHANGED <<USE_ASYNC, async_engine, stats>>
    /\ UNCHANGED urlVars

\* get_async_session (and get_async_db around it) after the yield
get_async_session_exit(r) ==
    /\ req[r].pc = "exit"
    /\ req[r].route \in AsyncRoutes
    /\ async_engine' = ReleaseTo(async_engine, req[r].session)
    /\ req' = [req EXCEPT ![r] =
            [@ EXCEPT !.pc = "done",
                      !.session = Closed(@, Len(AsyncCleanup)),
                      !.trace = @ \o CloseEvents(AsyncCleanup)]]
    /\ UNCHANGED <<USE_ASYNC, db_engine, stats>>
    /\ UNCHANGED urlVars

(***************************************************************************)
(* The handlers as steps of a request: each runs with the yielded session  *)
(* and leaves the caller's scope by returning or raising.                  *)
(***************************************************************************)
Finish(rq, res, conn) ==
    [rq EXCEPT !.pc = "exit", !.outcome = res.outcome, !.status = res.status,
               !.detail = res.detail, !.trace = @ \o res.events,
               !.session = [@ EXCEPT !.conn = conn,
                                     !.rollbackCalls = @ + Rollbacks(res.events)]]

get_examples(r) ==
    /\ req[r].pc = "handler"
    /\ req[r].route = "get_examples"
    /\ \E q \in QueryResults :
        /\ q.connected => CanCheckOut(db_engine.pool)
        /\ db_engine' = IF q.connected THEN [db_engine EXCEPT !.pool = CheckOut(@)]
                        ELSE db_engine
        /\ req' = [req EXCEPT ![r] =
                Finish(@, get_examples_result(q),
                       IF q.connected THEN db_engine.gen + 1 ELSE 0)]
    /\ UNCHANGED <<USE_ASYNC, async_engine, stats>>
    /\ UNCHANGED urlVars

get_async_examples(r) ==
    /\ req[r].pc = "handler"
    /\ req[r].route = "get_async_examples"
    /\ \E q \in QueryResults :
        /\ q.connected => CanCheckOut(async_engine.pool)
        /\ async_engine' = IF q.connected THEN [async_engine EXCEPT !.pool = CheckOut(@)]
                           ELSE async_engine
        /\ req' = [req EXCEPT ![r] =
                Finish(@, get_async_examples_result(q),
                       IF q.connected THEN async_engine.gen + 1 ELSE 0)]
    /\ UNCHANGED <<USE_ASYNC, db_engine, stats>>
    /\ UNCHANGED urlVars

create_example(r) ==
    /\ req[r].pc = "handler"
    /\ req[r].route = "create_example"
    /\ \E data \in DataInputs :
        req' = [req EXCEPT ![r] = Finish(@, create_example_result(data), 0)]
    /\ UNCHANGED <<USE_ASYNC, db_engine, async_engine, stats>>
    /\ UNCHANGED urlVars

create_async_example(r) ==
    /\ req[r].pc = "handler"
    /\ req[r].route = "create_async_example"
    /\ \E data \in DataInputs :
        req' = [req EXCEPT ![r] = Finish(@, create_async_example_result(data), 0)]
    /\ UNCHANGED <<USE_ASYNC, db_engine, async_engine, stats>>
    /\ UNCHANGED urlVars

\* the body of a caller's own "async with get_async_session()" block:
\* it finishes or raises
AsyncScopeBody(r) ==
    /\ req[r].pc = "handler"
    /\ req[r].route = "async_scope"
    /\ \E o \in {"ok", "raised"} :
        req' = [req EXCEPT ![r] = [@ EXCEPT !.pc = "exit", !.outcome = o]]
    /\ UNCHANGED <<USE_ASYNC, db_engine, async_engine, stats>>
    /\ UNCHANGED urlVars

\* the task holding an async session is cancelled at an await: CancelledError
\* is not an Exception, so no handler's except clause sees it
Cancel(r) ==
    /\ req[r].pc = "handler"
    /\ req[r].route \in {"get_async_examples", "async_scope"}
    /\ \E connected \in BOOLEAN :
        /\ connected => (req[r].route = "get_async_examples"
                         /\ CanCheckOut(async_engine.pool))
        /\ async_engine' = IF connected THEN [async_engine EXCEPT !.pool = CheckOut(@)]
                           ELSE async_engine
        /\ req' = [req EXCEPT ![r] =
                [@ EXCEPT !.pc = "exit", !.outcome = "cancelled",
                          !.session = [@ EXCEPT !.conn =
                              IF connected THEN async_engine.gen + 1 ELSE 0]]]
    /\ UNCHANGED <<USE_ASYNC, db_engine, stats>>
    /\ UNCHANGED urlVars

(***************************************************************************)
(* db/session.py: lifecycle hooks and diagnostics.                         *)
(***************************************************************************)
\* what "with engine.connect() as conn: conn.execute(...)" can do; the
\* connection is back in the pool when the block is left
PingOutcomes == {"connect_failed", "execute_failed", "ok"}

Pinged(e, o) ==
    IF o = "connect_failed" \/ ~CanCheckOut(e.pool) THEN e
    ELSE [e EXCEPT !.pool = CheckIn(CheckOut(@))]

\* init_db returns nothing; a failure propagates to the startup caller.  The
\* async engine is pinged only if the sync ping went through.
init_db ==
    /\ \E so \in PingOutcomes, ao \in PingOutcomes :
        /\ db_engine' = Pinged(db_engine, so)
        /\ async_engine' = IF so = "ok" /\ USE_ASYNC THEN Pinged(async_engine, ao)
                           ELSE async_engine
    /\ UNCHANGED <<USE_ASYNC, req, stats>>
    /\ UNCHANGED urlVars

close_db ==
    /\ db_engine.gen < MaxDispose
    /\ db_engine' = Dispose(db_engine)
    /\ async_engine' = IF USE_ASYNC THEN Dispose(async_engine) ELSE async_engine
    /\ UNCHANGED <<USE_ASYNC, req, stats>>
    /\ UNCHANGED urlVars

NoStats == [called |-> FALSE, raised |-> FALSE, out |-> [sync_mode |-> "unset"]]

\* reading engine.pool of a name that is not bound raises
PoolOf(e) == [raised |-> ~e.defined, pool |-> e.pool]

\* Diagnostics that read the async engine whatever the mode.
get_db_stats_unguarded(useAsync, dbEng, asyncEng) ==
    IF PoolOf(dbEng).raised \/ PoolOf(asyncEng).raised
    THEN [raised |-> TRUE, out |-> [sync_mode |-> "unset"]]
    ELSE [raised |-> FALSE,
          out |-> [sync_mode |-> "sqlalchemy", async_enabled |-> useAsync,
                   engine_stats |-> PoolStatus(dbEng.pool),
                   async_engine_stats |-> PoolStatus(asyncEng.pool)]]

\* get_db_stats
get_db_stats(useAsync, dbEng, asyncEng) ==
    IF PoolOf(dbEng).raised
    THEN [raised |-> TRUE, out |-> [sync_mode |-> "unset"]]
    ELSE IF useAsync
         THEN IF PoolOf(asyncEng).raised
              THEN [raised |-> TRUE, out |-> [sync_mode |-> "unset"]]
              ELSE [raised |-> FALSE,
                    out |-> [sync_mode |-> "sqlalchemy", async_enabled |-> useAsync,
                             engine_stats |-> PoolStatus(dbEng.pool),
                             async_engine_stats |-> PoolStatus(asyncEng.pool)]]
         ELSE [raised |-> FALSE,
               out |-> [sync_mode |-> "sqlalchemy", async_enabled |-> useAsync,
                        engine_stats |-> PoolStatus(dbEng.pool)]]

\* GET /db/status: {"status": "online", "stats": get_db_stats()}
get_db_status ==
    /\ LET res == get_db_stats(USE_ASYNC, db_engine, async_engine)
       IN  stats' = [called |-> TRUE, raised |-> res.raised, out |-> res.out]
    /\ UNCHANGED <<USE_ASYNC, db_engine, async_engine, req>>
    /\ UNCHANGED urlVars

(***************************************************************************)
(* Specifications.                                                         *)
(***************************************************************************)
\* the session layer after import: engines built, no request yet
InitSessionVars ==
    /\ USE_ASYNC \in BOOLEAN
    /\ db_engine = NewEngine
    /\ async_engine = IF USE_ASYNC THEN NewEngine ELSE Undefined
    /\ req = [r \in Req |-> IdleRequest]
    /\ stats = NoStats

Init ==
    /\ settings = LoadedSettings
    /\ runtime_env = Some(V_dev)
    /\ dev_local_url = None
    /\ url_result = NoCall
    /\ InitSessionVars

Next ==
    \/ \E r \in Req, route \in SyncRoutes : get_db(r, route)
    \/ \E r \in Req, route \in AsyncRoutes : get_async_db(r, route)
    \/ \E r \in Req : AsyncScopeEnter(r)
    \/ \E r \in Req : get_examples(r)
    \/ \E r \in Req : get_async_examples(r)
    \/ \E r \in Req : create_example(r)
    \/ \E r \in Req : create_async_example(r)
    \/ \E r \in Req : AsyncScopeBody(r)
    \/ \E r \in Req : Cancel(r)
    \/ \E r \in Req : get_db_exit(r)
    \/ \E r \in Req : get_async_session_exit(r)

\* the requests of a serving process
Spec == Init /\ [][Next]_vars

NextDiag ==
    \/ \E r \in DiagReq, route \in SyncRoutes : get_db(r, route)
    \/ \E r \in DiagReq, route \in AsyncRoutes : get_async_db(r, route)
    \/ \E r \in DiagReq : AsyncScopeEnter(r)
    \/ \E r \in DiagReq : get_examples(r)
    \/ \E r \in DiagReq : get_async_examples(r)
    \/ \E r \in DiagReq : create_example(r)
    \/ \E r \in DiagReq : create_async_example(r)
    \/ \E r \in DiagReq : AsyncScopeBody(r)
    \/ \E r \in DiagReq : Cancel(r)
    \/ \E r \in DiagReq : get_db_exit(r)
    \/ \E r \in DiagReq : get_async_session_exit(r)
    \/ init_db
    \/ close_db
    \/ get_db_status

\* the whole lifecycle: startup check, requests, the status route polled
\* between their steps, shutdown
SpecDiag == Init /\ [][NextDiag]_vars

\* URL resolution over every configuration; the session layer stays as built
InitUrl ==
    /\ InitUrlVars
    /\ USE_ASYNC = FALSE
    /\ db_engine = NewEngine
    /\ async_engine = Undefined
    /\ req = [r \in Req |-> IdleRequest]
    /\ stats = NoStats

NextUrl ==
    \/ ResolveSync
    \/ ResolveAsync

SpecUrl == InitUrl /\ [][NextUrl]_vars

(***************************************************************************)
(* Properties.                                                             *)
(***************************************************************************)
ScopeEnded(r) == req[r].pc = "done" /\ req[r].session.created

\* C1: a session acquired through get_db, get_async_session or get_async_db
\* has close invoked on it exactly once when the caller's scope ends, whether
\* the caller returned, raised or was cancelled; and not before.
C1_ClosedExactlyOnce ==
    \A r \in Req :
        /\ ScopeEnded(r) => req[r].session.closeCalls = 1
        /\ req[r].pc \in {"handler", "exit"} => req[r].session.closeCalls = 0

\* C2: with async mode disabled, entering get_async_session (directly or through
\* get_async_db) fails at once with the configuration error: no session is
\* created or yielded, no handler runs, no connection is taken from any pool
\* on its behalf.
C2_AsyncDisabledFailsFast ==
    ~USE_ASYNC =>
        /\ async_engine = Undefined
        /\ \A r \in Req :
              req[r].route \in AsyncRoutes =>
                  /\ req[r].pc = "done"
                  /\ req[r].outcome = "RuntimeError"
                  /\ req[r].session = NoSession
                  /\ req[r].trace = <<>>

C2_Witness ==
    /\ ~USE_ASYNC
    /\ \E r \in Req : req[r].route = "get_async_examples"
                      /\ req[r].outcome = "RuntimeError"
    /\ \E r \in Req : req[r].route = "async_scope"
                      /\ req[r].outcome = "RuntimeError"

SyncCalled == url_result.called /\ ~url_result.for_async

AsyncCalled == url_result.called /\ url_result.for_async

\* C3: when DATABASE_URL holds a URL, get_db_url(for_async=False) returns that
\* very string, whatever the discrete fields, RUNTIME_ENV and the local
\* provider are, on every call.
C3_ExplicitSyncUrlVerbatim ==
    (SyncCalled /\ Truthy(settings.database_url)) =>
        /\ url_result.kind = "ok"
        /\ url_result.value = settings.database_url.s

C3_Witness ==
    /\ SyncCalled
    /\ settings.database_url = Some(URL_alias_nested)
    /\ settings.db_host = Some(V_localhost)
    /\ runtime_env = None
    /\ url_result.value = URL_alias_nested

\* C4: with DATABASE_URL=postgres://u:p@h:5432/d and no DATABASE_URL_ASYNC, the
\* sync URL is postgresql://u:p@h:5432/d and the async URL is
\* postgresql+asyncpg://u:p@h:5432/d (alias first, driver suffix second).
C4_AliasNormalized ==
    (url_result.called /\ settings.database_url = Some(URL_alias_plain)
                       /\ settings.database_url_async = None) =>
        /\ url_result.kind = "ok"
        /\ url_result.value = IF url_result.for_async
                              THEN STR_asyncpg_scheme \o REST_plain
                              ELSE URL_canonical_plain

\* C5: with no explicit async URL and a DATABASE_URL starting with postgres://,
\* the async URL is postgresql+asyncpg:// followed by the remainder of the
\* configured URL, character for character.
C5_AsyncSchemeOnly ==
    (AsyncCalled /\ ~Truthy(settings.database_url_async)
                 /\ Truthy(settings.database_url)
                 /\ StartsWith(settings.database_url.s, STR_postgres_scheme)) =>
        /\ url_result.kind = "ok"
        /\ url_result.value =
               STR_asyncpg_scheme \o Remainder(settings.database_url.s, STR_postgres_scheme)

\* the documented format {driver}://{user}[:{password}]@{host}:{port}/{database}
DocumentedUrl(s) ==
    s.db_driver \o STR_sep \o s.db_user.s
        \o (IF Truthy(s.db_pass) THEN STR_colon \o s.db_pass.s ELSE <<>>)
        \o STR_at \o s.db_host.s \o STR_colon \o s.db_port.s
        \o STR_slash \o s.db_database.s

NoExplicitUrl ==
    /\ settings.database_url = None
    /\ settings.database_url_async = None

DiscreteComplete(s) ==
    ~s.db_host.isNone /\ ~s.db_port.isNone /\ ~s.db_user.isNone /\ ~s.db_database.isNone

\* C6: with no explicit URL and host, port, user and database all configured,
\* the sync URL is the documented format with the default driver, the
\* credential segment left out when there is no password; resolution succeeds
\* for every such configuration.
C6_DiscreteFormat ==
    (SyncCalled /\ NoExplicitUrl /\ DiscreteComplete(settings)) =>
        /\ url_result.kind = "ok"
        /\ url_result.value = DocumentedUrl(settings)

\* C7: with no explicit URL and a required discrete field missing: if
\* RUNTIME_ENV is unset the local provider's URL is returned (scheme rewritten
\* to postgresql+asyncpg:// in async mode), or ValueError "Could not build
\* database connection" if the provider has none; if RUNTIME_ENV is set the
\* result is that ValueError.
C7_LocalFallback ==
    (url_result.called /\ NoExplicitUrl /\ ~DiscreteComplete(settings)) =>
        IF runtime_env.isNone /\ Truthy(dev_local_url)
        THEN /\ url_result.kind = "ok"
             /\ url_result.value =
                    IF url_result.for_async
                    THEN STR_asyncpg_scheme \o Remainder(dev_local_url.s, STR_postgresql_scheme)
                    ELSE dev_local_url.s
        ELSE url_result.kind = "ValueError"

\* C8: get_db_stats never raises and changes nothing but its own result, in
\* every state; its output has the async pool counters exactly when async
\* mode is enabled, and the counters are those of the pools at the call.
C8_StatsReadOnly ==
    /\ [](stats.called =>
            /\ ~stats.raised
            /\ ("async_engine_stats" \in DOMAIN stats.out) <=> USE_ASYNC
            /\ stats.out.async_enabled = USE_ASYNC)
    /\ [][stats' # stats =>
            /\ UNCHANGED <<USE_ASYNC, db_engine, async_engine, req>>
            /\ ~stats'.raised
            /\ stats'.out.engine_stats = PoolStatus(db_engine.pool)
            /\ USE_ASYNC => stats'.out.async_engine_stats = PoolStatus(async_engine.pool)]_vars

C8_Witness ==
    /\ stats.called
    /\ USE_ASYNC
    /\ db_engine.gen > 0
    /\ stats.out.async_engine_stats.checkedout > 0
    /\ \E r \in Req : req[r].session.conn > 0

WriteRoutes == {"create_example", "create_async_example"}

\* C9: when a write handler fails, the session is rolled back once, on the
\* session of the handler's own mode, before the 500 is raised; the provider
\* closes the session afterwards (order: rollback, error, close).
C9_RollbackBeforeError ==
    \A r \in Req :
        (req[r].route \in WriteRoutes /\ req[r].outcome = "failed") =>
            /\ req[r].session.mode =
                   (IF req[r].route = "create_example" THEN "sync" ELSE "async")
            /\ req[r].session.rollbackCalls = 1
            /\ SubSeq(req[r].trace, 1, 2) = <<"rollback", "surface_500">>
            /\ \A i \in 3..Len(req[r].trace) : req[r].trace[i] = "close"
            /\ req[r].pc = "done" =>
                   (Len(req[r].trace) >= 3 /\ req[r].session.closeCalls >= 1)

C9_Witness ==
    /\ \E r \in Req : /\ req[r].route = "create_example"
                      /\ req[r].outcome = "failed"
                      /\ req[r].pc = "done"
    /\ \E r \in Req : /\ req[r].route = "create_async_example"
                      /\ req[r].outcome = "failed"
                      /\ req[r].pc = "done"

\* C10: the server-error response of a failed handler is generic: two failures
\* of the same route that differ only in the exception text give the same
\* user-visible detail.
C10_GenericError ==
    \A r1, r2 \in Req :
        (/\ req[r1].outcome = "failed"
         /\ req[r2].outcome = "failed"
         /\ req[r1].route = req[r2].route) =>
            req[r1].detail = req[r2].detail

====
